---- MODULE Spec2Model ----
(***************************************************************************)
(* MSFReceiver<SAMPLE_RATE_MS> of src/src/MSF-Time-Lib.h as a state        *)
(* machine: get_time_with_retry -> get_time -> syncToMinuteMarker (random  *)
(* sleep, rolling-buffer scan), get_next_bit_retrieval_timestamp, the      *)
(* boundary wait, the per-second sampling loop and the BCD/parity decoder. *)
(* One action is one loop iteration or one straight-line block of the      *)
(* code.  The environment is the millisecond clock (millis) and the        *)
(* carrier reader callback.                                                *)
(***************************************************************************)
EXTENDS Integers, Sequences, FiniteSets, TLC

(***************************************************************************)
(* Bounds of the model (not program constants).                            *)
(***************************************************************************)
\* get_time_with_retry loops without limit; the model stops starting new
\* attempts after this many.
MaxAttempts == 2
\* Register contents of the decoder specification: a base frame with at most
\* this many bits flipped.
MaxFlips == 2
\* Sampler specification: the carrier is free (noise) inside the bit-A window
\* of the seconds below this number, and follows the broadcast elsewhere.
NoisySeconds == 1
\* Scorer specification: the samples fed after a reset change value at most
\* this many times (the content before the reset counting as carrier).
MaxChanges == 2

VARIABLES
    pc,                                \* position in get_time_with_retry / get_time
    clock,                             \* what millis() returns now (uint32_t)
    SAMPLE_RATE_MS,                    \* the template parameter
    tick,                              \* environment: clock advance per loop iteration
    signal,                            \* environment: what the carrier reader sees
    packedABits, packedBBits,          \* uint8_t[8] each
    buffer,                            \* uint8_t[MINUTE_MARKER_LOOKUP_BUFFER_SIZE_IN_BYTES]
    rollingBufferHead,
    rollingBufferCarrierWindowScore,
    rollingBufferSilenceWindowScore,
    sleepTime, currentMillis,          \* locals of sleepForRandomTime
    startScan, lastSample,             \* locals of syncToMinuteMarker
    maxScoreSeen, timeOfMaxScore,
    prevMinuteMillis,                  \* local of get_next_bit_retrieval_timestamp
    minuteStart, nextSecondBoundary,   \* locals of get_time
    countOfHighBitASamples, totalCountOfBitASamples,
    countOfHighBitBSamples, totalCountOfBitBSamples,
    currentSecond,
    result,                            \* MSFData result of get_time / res of the wrapper
    attempts,                          \* history: get_time calls started
    attemptStart,                      \* history: clock at the call of get_time
    outcomes,                          \* history: checksumPassed of every finished attempt
    lastVote,                          \* history: counters and bits of the last store
    fed,                               \* history: samples fed to the scorer since its reset
    recent,                            \* history (SpecScorer): the last LOOKBACK_TOTAL samples fed, newest last
    changes,                           \* environment (SpecScorer): changes of value among the samples fed
    firstSeen,                         \* history: score -> clock of the first sample scoring it
    twin                               \* a second receiver fed the same inputs (SpecTwin)

vars == << pc, clock, SAMPLE_RATE_MS, tick, signal, packedABits, packedBBits,
           buffer, rollingBufferHead, rollingBufferCarrierWindowScore,
           rollingBufferSilenceWindowScore, sleepTime, currentMillis,
           startScan, lastSample, maxScoreSeen, timeOfMaxScore,
           prevMinuteMillis, minuteStart, nextSecondBoundary,
           countOfHighBitASamples, totalCountOfBitASamples,
           countOfHighBitBSamples, totalCountOfBitBSamples, currentSecond,
           result, attempts, attemptStart, outcomes, lastVote,
           fed, recent, changes, firstSeen, twin >>

(***************************************************************************)
(* uint32_t arithmetic.  A uint32_t value v is kept as the integer v when  *)
(* v < 2^31 and as v - 2^32 otherwise (its two's-complement reading), so   *)
(* that every intermediate value fits the model checker's integers; the    *)
(* operators below compute the unsigned, modulo 2^32 results of C.         *)
(***************************************************************************)
Wrap16(h) == ((h + 32768) % 65536) - 32768

Add32(a, b) ==
    LET lo == (a % 65536) + (b % 65536)
        hi == (a \div 65536) + (b \div 65536) + (lo \div 65536)
    IN  Wrap16(hi) * 65536 + (lo % 65536)

Sub32(a, b) ==
    LET lo == (a % 65536) - (b % 65536)
        hi == (a \div 65536) - (b \div 65536) + (lo \div 65536)
    IN  Wrap16(hi) * 65536 + (lo % 65536)

\* unsigned a < b
Lt32(a, b) == IF (a >= 0) = (b >= 0) THEN a < b ELSE a >= 0

\* unsigned a % m, for a modulus m with 65536 % m < 46341 (1000 and 60000 are)
Mod32(a, m) ==
    IF a >= 0 THEN a % m
    ELSE ((a % m) + (((65536 % m) * (65536 % m)) % m)) % m

\* conversion to uint8_t
U8(v) == v % 256

(***************************************************************************)
(* Bit-packed storage: writeBit / readBit on uint8_t arrays.               *)
(***************************************************************************)
RECURSIVE BitOr(_, _, _)
BitOr(x, y, n) ==
    IF n = 0 THEN 0
    ELSE (IF x % 2 = 1 \/ y % 2 = 1 THEN 1 ELSE 0) + 2 * BitOr(x \div 2, y \div 2, n - 1)

RECURSIVE BitAnd(_, _, _)
BitAnd(x, y, n) ==
    IF n = 0 THEN 0
    ELSE (IF x % 2 = 1 /\ y % 2 = 1 THEN 1 ELSE 0) + 2 * BitAnd(x \div 2, y \div 2, n - 1)

\* the low 8 bits of ~m
BitNot8(m) == 255 - m

\* mutant: the bit is cleared with the mask of the bit, not its complement
writeBitUnmasked(array, index, value) ==
    IF value
    THEN [array EXCEPT ![index \div 8] = BitOr(@, 2 ^ (index % 8), 8)]
    ELSE [array EXCEPT ![index \div 8] = BitAnd(@, 2 ^ (index % 8), 8)]

writeBit(array, index, value) ==
    IF value
    THEN [array EXCEPT ![index \div 8] = BitOr(@, 2 ^ (index % 8), 8)]
    ELSE [array EXCEPT ![index \div 8] = BitAnd(@, BitNot8(2 ^ (index % 8)), 8)]

readBit(array, index) == ((array[index \div 8] \div (2 ^ (index % 8))) % 2) = 1

\* memset(array, byte, n)
memset(n, byte) == [i \in 0..(n - 1) |-> byte]

(***************************************************************************)
(* Decoder: decodeBCD, checkParity and the decode block of get_time.       *)
(***************************************************************************)
wYear  == << 80, 40, 20, 10, 8, 4, 2, 1 >>
wMonth == << 10, 8, 4, 2, 1 >>
wDay   == << 20, 10, 8, 4, 2, 1 >>
wDOW   == << 4, 2, 1 >>
wHour  == << 20, 10, 8, 4, 2, 1 >>
wMin   == << 40, 20, 10, 8, 4, 2, 1 >>

RECURSIVE decodeBCDLoop(_, _, _, _, _)
decodeBCDLoop(A, startIdx, count, weights, i) ==
    IF i >= count \/ startIdx + i >= 60 THEN 0
    ELSE (IF readBit(A, startIdx + i) THEN weights[i + 1] ELSE 0)
         + decodeBCDLoop(A, startIdx, count, weights, i + 1)

\* mutant: the loop reads one position too far to the right
decodeBCDShifted(A, startIdx, count, weights) ==
    decodeBCDLoop(A, startIdx + 1, count, weights, 0)

decodeBCD(A, startIdx, count, weights) ==
    decodeBCDLoop(A, startIdx, count, weights, 0)

RECURSIVE countOnes(_, _, _, _)
countOnes(A, startIdx, count, i) ==
    IF i >= count THEN 0
    ELSE (IF readBit(A, startIdx + i) THEN 1 ELSE 0) + countOnes(A, startIdx, count, i + 1)

\* mutant: the parity bit of the B register is not counted
checkParityNoParityBit(A, B, startIdx, count, parityBitIdx) ==
    countOnes(A, startIdx, count, 0) % 2 # 0

\* mutant: the loop stops one bit early
checkParityShort(A, B, startIdx, count, parityBitIdx) ==
    (countOnes(A, startIdx, count - 1, 0)
       + (IF readBit(B, parityBitIdx) THEN 1 ELSE 0)) % 2 # 0

checkParity(A, B, startIdx, count, parityBitIdx) ==
    (countOnes(A, startIdx, count, 0)
       + (IF readBit(B, parityBitIdx) THEN 1 ELSE 0)) % 2 # 0

\* mutant: the year is assigned, not added to the member initialiser 2000
yearFieldRaw(rawYear) == rawYear

\* MSFData::year = 2000; result.year += rawYear  (uint32_t)
yearField(rawYear) == Add32(2000, rawYear)

sane(month, day, hour, minute) ==
    /\ month >= 1 /\ month <= 12
    /\ day >= 1 /\ day <= 31
    /\ hour <= 23
    /\ minute <= 59

\* mutant: || typed for the first &&
checksumAnyYear(pYear, pDate, pDOW, pTime, ok) ==
    pYear \/ (pDate /\ pDOW /\ pTime /\ ok)

checksum(pYear, pDate, pDOW, pTime, ok) ==
    pYear /\ pDate /\ pDOW /\ pTime /\ ok

\* the "3. DECODE" block of get_time on registers A and B
decode(A, B) ==
    LET rawYear == decodeBCD(A, 17, 8, wYear)
        month   == U8(decodeBCD(A, 25, 5, wMonth))
        day     == U8(decodeBCD(A, 30, 6, wDay))
        hour    == U8(decodeBCD(A, 39, 6, wHour))
        minute  == U8(decodeBCD(A, 45, 7, wMin))
        dow     == U8(decodeBCD(A, 36, 3, wDOW) + 1)
        pYear   == checkParity(A, B, 17, 8, 54)
        pDate   == checkParity(A, B, 25, 11, 55)
        pDOW    == checkParity(A, B, 36, 3, 56)
        pTime   == checkParity(A, B, 39, 13, 57)
    IN  [ year |-> yearField(rawYear), month |-> month, day |-> day,
          hour |-> hour, minute |-> minute, second |-> 0,
          dayOfTheWeek |-> dow,
          checksumPassed |-> checksum(pYear, pDate, pDOW, pTime,
                                      sane(month, day, hour, minute)) ]

\* placeholder for the result before any attempt has decoded one
NoResult ==
    [ year |-> 2000, month |-> 0, day |-> 0, hour |-> 0, minute |-> 0,
      second |-> 0, dayOfTheWeek |-> 0, checksumPassed |-> FALSE ]

(***************************************************************************)
(* Rolling-window scorer.                                                  *)
(***************************************************************************)
MINUTE_MARKER_LOOKUP_BUFFER_SIZE_IN_NUM_ELEMENTS == 1500 \div SAMPLE_RATE_MS
MINUTE_MARKER_LOOKUP_BUFFER_SIZE_IN_BYTES ==
    (MINUTE_MARKER_LOOKUP_BUFFER_SIZE_IN_NUM_ELEMENTS + 7) \div 8
MINUTE_MARKER_NUM_SAMPLES_CARRIER == 700 \div SAMPLE_RATE_MS
MINUTE_MARKER_NUM_SAMPLES_SILENCE == 500 \div SAMPLE_RATE_MS
LOOKBACK_TOTAL == MINUTE_MARKER_NUM_SAMPLES_CARRIER + MINUTE_MARKER_NUM_SAMPLES_SILENCE

\* the scorer's fields as one value
scorer ==
    [ buffer  |-> buffer,
      head    |-> rollingBufferHead,
      carrier |-> rollingBufferCarrierWindowScore,
      silence |-> rollingBufferSilenceWindowScore ]

\* mutant: an index below 0 is brought back one place short
indexAtEdgeShort(head, back) ==
    IF head - back < 0
    THEN head - back + MINUTE_MARKER_LOOKUP_BUFFER_SIZE_IN_NUM_ELEMENTS - 1
    ELSE head - back

\* the index `back` samples behind the head: rollingBufferHead - back, plus
\* the buffer length if that is below 0
indexAtEdge(head, back) ==
    IF head - back < 0
    THEN head - back + MINUTE_MARKER_LOOKUP_BUFFER_SIZE_IN_NUM_ELEMENTS
    ELSE head - back

\* mutant: a silence sample leaving the silence window is not taken off
silenceScoreAfterNoDecrement(score, carrierValue, sampleLeavingSilence) ==
    IF ~carrierValue THEN score + 1 ELSE score

\* the "SILENCE REGION UPDATES" of updateRollingBuffer
silenceScoreAfter(score, carrierValue, sampleLeavingSilence) ==
    LET s1 == IF ~carrierValue THEN score + 1 ELSE score
    IN  IF ~sampleLeavingSilence THEN s1 - 1 ELSE s1

\* the "CARRIER REGION UPDATES" of updateRollingBuffer
carrierScoreAfter(score, sampleLeavingSilence, sampleLeavingCarrier) ==
    LET c1 == IF sampleLeavingSilence THEN score + 1 ELSE score
    IN  IF sampleLeavingCarrier THEN c1 - 1 ELSE c1

\* mutant: the head goes back to 0 one place late
headAfterLate(head) ==
    IF head + 1 > MINUTE_MARKER_LOOKUP_BUFFER_SIZE_IN_NUM_ELEMENTS THEN 0 ELSE head + 1

\* rollingBufferHead++ and the return to 0 at the end of the buffer
headAfter(head) ==
    IF head + 1 >= MINUTE_MARKER_LOOKUP_BUFFER_SIZE_IN_NUM_ELEMENTS THEN 0 ELSE head + 1

\* updateRollingBuffer(carrierValue) on scorer fields st: the fields after
\* the call; the value returned is carrier + silence of the result
updateRollingBuffer(st, carrierValue) ==
    LET indexAtSilenceEdge == indexAtEdge(st.head, MINUTE_MARKER_NUM_SAMPLES_SILENCE)
        indexAtCarrierEdge == indexAtEdge(st.head, LOOKBACK_TOTAL)
        sampleLeavingSilence == readBit(st.buffer, indexAtSilenceEdge)
        sampleLeavingCarrier == readBit(st.buffer, indexAtCarrierEdge)
        c2 == carrierScoreAfter(st.carrier, sampleLeavingSilence, sampleLeavingCarrier)
        s2 == silenceScoreAfter(st.silence, carrierValue, sampleLeavingSilence)
    IN  [ buffer  |-> writeBit(st.buffer, st.head, carrierValue),
          head    |-> headAfter(st.head),
          carrier |-> c2,
          silence |-> s2 ]

\* mutant: the carrier score starts at 0
rollingBufferSetupAndCleanupFromZero ==
    [ buffer  |-> memset(MINUTE_MARKER_LOOKUP_BUFFER_SIZE_IN_BYTES, 255),
      head    |-> 0,
      carrier |-> 0,
      silence |-> 0 ]

\* the fields after rollingBufferSetupAndCleanup()
rollingBufferSetupAndCleanup ==
    [ buffer  |-> memset(MINUTE_MARKER_LOOKUP_BUFFER_SIZE_IN_BYTES, 255),
      head    |-> 0,
      carrier |-> MINUTE_MARKER_NUM_SAMPLES_CARRIER,
      silence |-> 0 ]

\* mutant: the two scores are left as they were
cleanedKeepScores(st) ==
    [ rollingBufferSetupAndCleanup EXCEPT !.carrier = st.carrier,
                                          !.silence = st.silence ]

\* scorer fields st after rollingBufferSetupAndCleanup(): each of the four
\* is assigned, none keeps anything of st
cleaned(st) == rollingBufferSetupAndCleanup

\* the number of samples fed since the reset, and the samples fed to the
\* scorer by itself (UpdateRollingBuffer) since the reset, after one more
\* sample v
fedAfter(v) == fed + 1
recentAfter(v) ==
    LET r == Append(recent, v)
    IN  IF Len(r) > LOOKBACK_TOTAL THEN Tail(r) ELSE r

\* the sample fed last; before the first one, the carrier the reset assumes
lastFed == IF recent = << >> THEN TRUE ELSE recent[Len(recent)]

(***************************************************************************)
(* Environment: the broadcast seen by the carrier reader.                  *)
(* signal.kind = "high": the reader always returns true (carrier);         *)
(*               "low":  the reader always returns false (silence);        *)
(*               "msf":  steady carrier before clock value signal.from,    *)
(*                       then the MSF second structure: minute starts at   *)
(*                       signal.phase + n * 60000, second 0 is 500 ms off, *)
(*                       every other second k is 100 ms off, then off in   *)
(*                       [100,200) iff bit A of k and in [200,300) iff bit *)
(*                       B of k, else on; in seconds of signal.noisy the   *)
(*                       interval [100,200) is noise (either value);       *)
(*               "marker": steady carrier but for one minute marker, the   *)
(*                       500 ms of silence from clock value signal.phase.  *)
(***************************************************************************)
msfCarrier(sec, ms) ==
    IF sec = 0 THEN ms >= 500
    ELSE ~(\/ ms < 100
           \/ (ms >= 100 /\ ms < 200 /\ sec \in signal.frameA)
           \/ (ms >= 200 /\ ms < 300 /\ sec \in signal.frameB))

\* the time since the last minute start of the broadcast at clock value t:
\* the broadcast's minutes go on before signal.phase and through the
\* wraparound of the clock (clock values less than 2^31 before signal.phase
\* count as before it)
sinceMinuteStart(t) ==
    LET d == Sub32(t, signal.phase)
    IN  IF d < 0 THEN (60000 - ((0 - d) % 60000)) % 60000 ELSE d % 60000

\* the values carrierStateReader() may return at clock value t
carrierStateReader(t) ==
    LET e   == sinceMinuteStart(t)
        sec == e \div 1000
        ms  == e % 1000
    IN  CASE signal.kind = "high" -> {TRUE}
          [] signal.kind = "low"  -> {FALSE}
          [] signal.kind = "marker" -> {~Lt32(Sub32(t, signal.phase), 500)}
          [] OTHER ->
               IF Lt32(t, signal.from) THEN {TRUE}
               ELSE IF sec \in signal.noisy /\ ms >= 100 /\ ms < 200 THEN BOOLEAN
               ELSE {msfCarrier(sec, ms)}

\* 2024-03-17 (day of week 6) 14:05, with the 01111110 marker in A[52..59]
\* and the four parity bits in B[54..57]
FrameE1A == {19, 22, 28, 29, 31, 33, 34, 35, 36, 37, 40, 42, 49, 51,
             53, 54, 55, 56, 57, 58}
FrameE1B == {54, 55, 56, 57}

(***************************************************************************)
(* Actions: get_time_with_retry and everything it calls.                   *)
(***************************************************************************)
\* the values random(1000, 5000) returns in the model: both ends of its range
SleepTimes == {1000, 4999}

scanVars == << startScan, lastSample, maxScoreSeen, timeOfMaxScore >>
scorerVars == << buffer, rollingBufferHead, rollingBufferCarrierWindowScore,
                 rollingBufferSilenceWindowScore >>
counterVars == << countOfHighBitASamples, totalCountOfBitASamples,
                  countOfHighBitBSamples, totalCountOfBitBSamples >>
envVars == << SAMPLE_RATE_MS, tick, signal >>
feedVars == << fed, recent, changes >>
obsVars == << fed, recent, changes, firstSeen, twin >>

setScorer(st) ==
    /\ buffer' = st.buffer
    /\ rollingBufferHead' = st.head
    /\ rollingBufferCarrierWindowScore' = st.carrier
    /\ rollingBufferSilenceWindowScore' = st.silence

\* no second receiver is tracked
NoTwin == [ on |-> FALSE ]

\* the scorer fields of the second receiver
twinScorer ==
    [ buffer  |-> twin.buffer,
      head    |-> twin.head,
      carrier |-> twin.carrier,
      silence |-> twin.silence ]

\* the second receiver at the call of get_time: every field differs from
\* the first receiver's leftover content
twinLeftover ==
    [ on          |-> TRUE,
      same        |-> TRUE,
      packedABits |-> [i \in DOMAIN packedABits |-> 255 - packedABits[i]],
      packedBBits |-> [i \in DOMAIN packedBBits |-> 255 - packedBBits[i]],
      buffer      |-> [i \in DOMAIN buffer |-> 255 - buffer[i]],
      head        |-> (rollingBufferHead + 1) % MINUTE_MARKER_LOOKUP_BUFFER_SIZE_IN_NUM_ELEMENTS,
      carrier     |-> rollingBufferCarrierWindowScore + 1,
      silence     |-> rollingBufferSilenceWindowScore + 3,
      result      |-> NoResult ]

\* while (true) { res = get_time(); ... : the call chain get_time ->
\* get_next_bit_retrieval_timestamp -> syncToMinuteMarker ->
\* sleepForRandomTime up to the first test of its loop
StartAttempt ==
    /\ pc = "retry"
    /\ attempts < MaxAttempts
    /\ \E t \in SleepTimes : sleepTime' = t
    /\ currentMillis' = clock
    /\ attempts' = attempts + 1
    /\ attemptStart' = clock
    /\ pc' = "sleep"
    /\ twin' = IF twin.on THEN twinLeftover ELSE twin
    /\ UNCHANGED << clock, envVars, packedABits, packedBBits, scorerVars, scanVars,
                    prevMinuteMillis, minuteStart, nextSecondBoundary, counterVars,
                    currentSecond, result, outcomes, lastVote, feedVars, firstSeen >>

\* sleepForRandomTime: one test of while (millis() - currentMillis < sleepTime)
\* and, if it holds, delay(1)
SleepLoop ==
    /\ pc = "sleep"
    /\ IF Lt32(Sub32(clock, currentMillis), sleepTime)
       THEN /\ clock' = Add32(clock, tick)
            /\ pc' = "sleep"
       ELSE /\ clock' = clock
            /\ pc' = "reset"
    /\ UNCHANGED << envVars, packedABits, packedBBits, scorerVars, sleepTime,
                    currentMillis, scanVars, prevMinuteMillis, minuteStart,
                    nextSecondBoundary, counterVars, currentSecond, result,
                    attempts, attemptStart, outcomes, lastVote, obsVars >>

\* syncToMinuteMarker: rollingBufferSetupAndCleanup() and the locals of the scan
ResetBuffer ==
    /\ pc = "reset"
    /\ setScorer(cleaned(scorer))
    /\ startScan' = clock
    /\ lastSample' = 0
    /\ maxScoreSeen' = 0
    /\ timeOfMaxScore' = 0
    /\ pc' = "scan"
    /\ fed' = 0
    /\ recent' = << >>
    /\ changes' = 0
    /\ firstSeen' = << >>
    /\ twin' = IF twin.on
               THEN LET c == cleaned(twinScorer)
                    IN  [twin EXCEPT !.buffer = c.buffer, !.head = c.head,
                                     !.carrier = c.carrier, !.silence = c.silence]
               ELSE twin
    /\ UNCHANGED << clock, envVars, packedABits, packedBBits, sleepTime, currentMillis,
                    prevMinuteMillis, minuteStart, nextSecondBoundary, counterVars,
                    currentSecond, result, attempts, attemptStart, outcomes, lastVote >>

\* mutant: a score equal to the best so far also moves the peak
beatsMaxOrEquals(currentScore, best) == currentScore >= best

\* if (currentScore > maxScoreSeen)
beatsMax(currentScore, best) == currentScore > best

\* syncToMinuteMarker: one test of while (millis() - startScan < 65000) and
\* one pass of its body, or the return of timeOfMaxScore - 500
ScanLoop ==
    /\ pc = "scan"
    /\ IF Lt32(Sub32(clock, startScan), 65000)
       THEN /\ IF ~Lt32(Sub32(clock, lastSample), SAMPLE_RATE_MS)
               THEN \E carrierValue \in carrierStateReader(clock) :
                      LET st == updateRollingBuffer(scorer, carrierValue)
                          currentScore == st.carrier + st.silence
                      IN  /\ setScorer(st)
                          /\ lastSample' = clock
                          /\ IF beatsMax(currentScore, maxScoreSeen)
                             THEN /\ maxScoreSeen' = currentScore
                                  /\ timeOfMaxScore' = clock
                             ELSE UNCHANGED << maxScoreSeen, timeOfMaxScore >>
                          /\ fed' = fedAfter(carrierValue)
                          /\ UNCHANGED << recent, changes >>
                          /\ firstSeen' = IF currentScore \in DOMAIN firstSeen
                                          THEN firstSeen
                                          ELSE firstSeen @@ (currentScore :> clock)
                          /\ twin' = IF twin.on
                                     THEN LET tw == updateRollingBuffer(twinScorer, carrierValue)
                                          IN  [twin EXCEPT
                                                 !.buffer = tw.buffer, !.head = tw.head,
                                                 !.carrier = tw.carrier, !.silence = tw.silence,
                                                 !.same = @ /\ tw.carrier + tw.silence = currentScore]
                                     ELSE twin
               ELSE UNCHANGED << scorerVars, lastSample, maxScoreSeen, timeOfMaxScore,
                                 obsVars >>
            /\ clock' = Add32(clock, tick)
            /\ pc' = "scan"
            /\ UNCHANGED prevMinuteMillis
       ELSE /\ prevMinuteMillis' = Sub32(timeOfMaxScore, 500)
            /\ pc' = "boundary"
            /\ UNCHANGED << clock, scorerVars, lastSample, maxScoreSeen, timeOfMaxScore,
                            obsVars >>
    /\ UNCHANGED << envVars, packedABits, packedBBits, sleepTime, currentMillis,
                    startScan, minuteStart, nextSecondBoundary, counterVars,
                    currentSecond, result, attempts, attemptStart, outcomes, lastVote >>

\* mutant: the remainder is added to the minute, not taken from it
waitInMilisecondsPlus(now, prev) == 60000 + Mod32(Sub32(now, prev), 60000)

\* the wait computed by get_next_bit_retrieval_timestamp from its first
\* reading of millis()
waitInMiliseconds(now, prev) == 60000 - Mod32(Sub32(now, prev), 60000)

\* get_next_bit_retrieval_timestamp after syncToMinuteMarker returned, and
\* the start of get_time: the clock is read twice, and may advance in between
NextBitRetrievalTimestamp ==
    /\ pc = "boundary"
    /\ \E gap \in {0, tick} :
         /\ clock' = Add32(clock, gap)
         /\ minuteStart' = Add32(clock', waitInMiliseconds(clock, prevMinuteMillis))
    /\ nextSecondBoundary' = 1000
    /\ packedABits' = memset(8, 0)
    /\ packedBBits' = memset(8, 0)
    /\ pc' = "wait"
    /\ twin' = IF twin.on
               THEN [twin EXCEPT !.packedABits = memset(8, 0), !.packedBBits = memset(8, 0)]
               ELSE twin
    /\ UNCHANGED << envVars, scorerVars, sleepTime, currentMillis, scanVars,
                    prevMinuteMillis, counterVars, currentSecond, result,
                    attempts, attemptStart, outcomes, lastVote, feedVars, firstSeen >>

\* get_time: one test of while (millis() < minuteStart) and delay(1), or the
\* initialisation of the sampling loop's locals
WaitLoop ==
    /\ pc = "wait"
    /\ IF Lt32(clock, minuteStart)
       THEN /\ clock' = Add32(clock, tick)
            /\ pc' = "wait"
            /\ UNCHANGED << counterVars, currentSecond >>
       ELSE /\ clock' = clock
            /\ countOfHighBitASamples' = 0
            /\ totalCountOfBitASamples' = 0
            /\ countOfHighBitBSamples' = 0
            /\ totalCountOfBitBSamples' = 0
            /\ currentSecond' = 0
            /\ pc' = "sample"
    /\ UNCHANGED << envVars, packedABits, packedBBits, scorerVars, sleepTime,
                    currentMillis, scanVars, prevMinuteMillis, minuteStart,
                    nextSecondBoundary, result, attempts, attemptStart, outcomes,
                    lastVote, obsVars >>

\* mutant: >= 60 instead of > 60
voteAtLeast(high, total) ==
    (IF total > 0 THEN (high * 100) \div total ELSE 0) >= 60

\* the bit stored at the end of a second from the window's counters
vote(high, total) ==
    (IF total > 0 THEN (high * 100) \div total ELSE 0) > 60

\* mutant: every pass is taken for the end of a second
secondBoundaryCrossedAlways(elapsedMs, boundary) == TRUE

\* mutant: the millisecond within the second is compared, not elapsedMs
secondBoundaryCrossedMs(elapsedMs, boundary) == ~Lt32(Mod32(elapsedMs, 1000), boundary)

\* if (elapsedMs >= nextSecondBoundary)
secondBoundaryCrossed(elapsedMs, boundary) == ~Lt32(elapsedMs, boundary)

\* mutant: the bit-A window opens at the start of the second
inBitAWindowFromZero(ms) == ms <= 165

\* currentMsInCurrentSecond >= 135 && currentMsInCurrentSecond <= 165
inBitAWindow(ms) == ms >= 135 /\ ms <= 165

\* currentMsInCurrentSecond >= 235 && currentMsInCurrentSecond <= 265
inBitBWindow(ms) == ms >= 235 /\ ms <= 265

\* mutant: the loop ends one second early
samplingContinuesTo59(second) == second < 59

\* while (currentSecond < 60)
samplingContinues(second) == second < 60

\* get_time: one pass of the body of while (currentSecond < 60)
SampleLoop ==
    /\ pc = "sample"
    /\ samplingContinues(currentSecond)
    /\ \E carrierState \in carrierStateReader(clock) :
         LET elapsedMs == Sub32(clock, minuteStart)
             currentMsInCurrentSecond == Mod32(elapsedMs, 1000)
             binaryState == ~carrierState
             inA == inBitAWindow(currentMsInCurrentSecond)
             inB == ~inA /\ inBitBWindow(currentMsInCurrentSecond)
             totalA == totalCountOfBitASamples + (IF inA THEN 1 ELSE 0)
             highA  == countOfHighBitASamples + (IF inA /\ binaryState THEN 1 ELSE 0)
             totalB == totalCountOfBitBSamples + (IF inB THEN 1 ELSE 0)
             highB  == countOfHighBitBSamples + (IF inB /\ binaryState THEN 1 ELSE 0)
         IN  IF secondBoundaryCrossed(elapsedMs, nextSecondBoundary)
             THEN /\ packedABits' = writeBit(packedABits, currentSecond, vote(highA, totalA))
                  /\ packedBBits' = writeBit(packedBBits, currentSecond, vote(highB, totalB))
                  /\ lastVote' = [ second |-> currentSecond,
                                   totalA |-> totalA, highA |-> highA,
                                   totalB |-> totalB, highB |-> highB ]
                  /\ currentSecond' = currentSecond + 1
                  /\ nextSecondBoundary' = Add32(nextSecondBoundary, 1000)
                  /\ countOfHighBitASamples' = 0
                  /\ totalCountOfBitASamples' = 0
                  /\ countOfHighBitBSamples' = 0
                  /\ totalCountOfBitBSamples' = 0
                  /\ pc' = IF samplingContinues(currentSecond + 1) THEN "sample" ELSE "decode"
                  /\ twin' = IF twin.on
                             THEN [twin EXCEPT
                                     !.packedABits = writeBit(@, currentSecond, vote(highA, totalA)),
                                     !.packedBBits = writeBit(@, currentSecond, vote(highB, totalB))]
                             ELSE twin
             ELSE /\ countOfHighBitASamples' = highA
                  /\ totalCountOfBitASamples' = totalA
                  /\ countOfHighBitBSamples' = highB
                  /\ totalCountOfBitBSamples' = totalB
                  /\ pc' = "sample"
                  /\ UNCHANGED << packedABits, packedBBits, lastVote, currentSecond,
                                  nextSecondBoundary, twin >>
    /\ clock' = Add32(clock, tick)
    /\ UNCHANGED << envVars, scorerVars, sleepTime, currentMillis, scanVars,
                    prevMinuteMillis, minuteStart, result, attempts, attemptStart,
                    outcomes, feedVars, firstSeen >>

\* get_time: the "3. DECODE" block and the return of the result
Decode ==
    /\ pc = "decode"
    /\ result' = decode(packedABits, packedBBits)
    /\ outcomes' = Append(outcomes, result'.checksumPassed)
    /\ pc' = "check"
    /\ twin' = IF twin.on
               THEN [twin EXCEPT !.result = decode(twin.packedABits, twin.packedBBits)]
               ELSE twin
    /\ UNCHANGED << clock, envVars, packedABits, packedBBits, scorerVars, sleepTime,
                    currentMillis, scanVars, prevMinuteMillis, minuteStart,
                    nextSecondBoundary, counterVars, currentSecond, attempts,
                    attemptStart, lastVote, feedVars, firstSeen >>

\* mutant: the wrapper returns whatever get_time returned
retryReturnsAlways(res) == TRUE

\* get_time_with_retry: if (res.checksumPassed) return res;
retryReturns(res) == res.checksumPassed

RetryCheck ==
    /\ pc = "check"
    /\ pc' = IF retryReturns(result) THEN "returned" ELSE "retry"
    /\ UNCHANGED << clock, envVars, packedABits, packedBBits, scorerVars, sleepTime,
                    currentMillis, scanVars, prevMinuteMillis, minuteStart,
                    nextSecondBoundary, counterVars, currentSecond, result, attempts,
                    attemptStart, outcomes, lastVote, obsVars >>

\* the samples a caller of the scorer may feed next.  signal.kind =
\* "pattern": SAMPLES_CARRIER carrier samples, then silence; "samples": any
\* value, as long as the value has changed fewer than MaxChanges times and
\* this sample is the first at or after a multiple of 100 ms (the length of
\* every element of the broadcast second), else the value fed last
sampleSource ==
    IF signal.kind = "pattern"
    THEN {fed < MINUTE_MARKER_NUM_SAMPLES_CARRIER}
    ELSE IF changes < MaxChanges /\ (fed * SAMPLE_RATE_MS) % 100 < SAMPLE_RATE_MS
         THEN BOOLEAN
         ELSE {lastFed}

\* the number of samples fed in the scorer specification: the pattern, or
\* one lap of the ring buffer and both windows once more
feedLimit ==
    IF signal.kind = "pattern" THEN LOOKBACK_TOTAL
    ELSE MINUTE_MARKER_LOOKUP_BUFFER_SIZE_IN_NUM_ELEMENTS + LOOKBACK_TOTAL

\* one call updateRollingBuffer(carrierValue) by itself, after the reset
UpdateRollingBuffer ==
    /\ pc = "scan"
    /\ fed < feedLimit
    /\ \E carrierValue \in sampleSource :
         /\ setScorer(updateRollingBuffer(scorer, carrierValue))
         /\ fed' = fedAfter(carrierValue)
         /\ recent' = recentAfter(carrierValue)
         /\ changes' = changes + (IF carrierValue # lastFed THEN 1 ELSE 0)
    /\ UNCHANGED << pc, clock, envVars, packedABits, packedBBits, sleepTime,
                    currentMillis, scanVars, prevMinuteMillis, minuteStart,
                    nextSecondBoundary, counterVars, currentSecond, result, attempts,
                    attemptStart, outcomes, lastVote, firstSeen, twin >>

(***************************************************************************)
(* Initial states and specifications.                                      *)
(***************************************************************************)
\* a uint8_t array holding 1 exactly at the positions of set S
PackBits(S) ==
    [ b \in 0..7 |->
        LET bit(i) == IF (8 * b + i) \in S THEN 2 ^ i ELSE 0
        IN  bit(0) + bit(1) + bit(2) + bit(3) + bit(4) + bit(5) + bit(6) + bit(7) ]

\* the receiver's fields are not initialised by the constructor: whatever
\* the memory held, here one of two fillings
Garbage == {0, 165}

Steady(kind) ==
    [ kind |-> kind, frameA |-> {}, frameB |-> {}, phase |-> 0, from |-> 0,
      noisy |-> {} ]

Msf(phase, from, noisy) ==
    [ kind |-> "msf", frameA |-> FrameE1A, frameB |-> FrameE1B, phase |-> phase,
      from |-> from, noisy |-> noisy ]

\* steady carrier with one minute marker: silence from clock value phase
Marker(phase) == [Steady("marker") EXCEPT !.phase = phase]

\* the broadcasts of the full specification: a stuck reader, and the MSF
\* signal present from the start or only after the first attempt has sampled
\* steady carrier, with the minute at two phases of the clock: one puts the
\* marker's peak 5550 ms into the scan after a 1000 ms sleep (shortest wait
\* for the boundary), the other 5500 ms into it after a 4999 ms sleep
\* (longest wait)
Signals ==
    {Steady("high"), Steady("low")}
      \cup {Msf(phase, from, {}) : phase \in {6100, 10050}, from \in {0, 200000}}

\* values of the locals before the code that declares them has run
LocalsInit ==
    /\ sleepTime = 0 /\ currentMillis = 0
    /\ startScan = 0 /\ lastSample = 0 /\ maxScoreSeen = 0 /\ timeOfMaxScore = 0
    /\ prevMinuteMillis = 0 /\ minuteStart = 0 /\ nextSecondBoundary = 0
    /\ countOfHighBitASamples = 0 /\ totalCountOfBitASamples = 0
    /\ countOfHighBitBSamples = 0 /\ totalCountOfBitBSamples = 0
    /\ currentSecond = 0
    /\ result = NoResult
    /\ lastVote = [ second |-> -1, totalA |-> 0, highA |-> 0, totalB |-> 0, highB |-> 0 ]
    /\ fed = 0 /\ recent = << >> /\ changes = 0 /\ firstSeen = << >>

\* after MSFReceiver(readerFunc), before get_time_with_retry()
Init ==
    /\ pc = "retry"
    /\ clock = 0
    /\ SAMPLE_RATE_MS = 50
    /\ tick = 50
    /\ signal \in Signals
    /\ \E g \in Garbage :
         /\ packedABits = memset(8, g)
         /\ packedBBits = memset(8, g)
         /\ buffer = memset(MINUTE_MARKER_LOOKUP_BUFFER_SIZE_IN_BYTES, g)
         /\ rollingBufferHead = g
         /\ rollingBufferCarrierWindowScore = g
         /\ rollingBufferSilenceWindowScore = g
    /\ attempts = 0
    /\ attemptStart = 0
    /\ outcomes = << >>
    /\ LocalsInit
    /\ twin = NoTwin

Next ==
    \/ StartAttempt
    \/ SleepLoop
    \/ ResetBuffer
    \/ ScanLoop
    \/ NextBitRetrievalTimestamp
    \/ WaitLoop
    \/ SampleLoop
    \/ Decode
    \/ RetryCheck

Spec == Init /\ [][Next]_vars

\* the clock keeps advancing and the processor keeps executing: every step
\* of the program that can be taken is taken
FairSpec == Spec /\ WF_vars(Next)

(***************************************************************************)
(* Decoder specification: the decode block of get_time applied to register *)
(* contents drawn from a base frame with up to MaxFlips bits flipped.      *)
(***************************************************************************)
\* register positions that are flipped: the decoded ranges and one position
\* on either side of them
FlipPositions ==
    {<< "A", k >> : k \in 16..52} \cup {<< "B", k >> : k \in 53..58}

RECURSIVE SubsetsUpTo(_, _)
SubsetsUpTo(S, n) ==
    IF n = 0 THEN {{}}
    ELSE LET prev == SubsetsUpTo(S, n - 1)
         IN  prev \cup {q \cup {x} : q \in prev, x \in S}

Flipped(S, reg, flips) ==
    LET X == {k \in 0..59 : << reg, k >> \in flips}
    IN  (S \ X) \cup (X \ S)

\* base frames: what steady carrier leaves in the registers, the broadcast
\* frame, and what steady silence leaves
BaseFrames ==
    { [A |-> {}, B |-> {}], [A |-> FrameE1A, B |-> FrameE1B],
      [A |-> 0..59, B |-> 0..59] }

InitDecode ==
    /\ pc = "decode"
    /\ clock = 190000
    /\ SAMPLE_RATE_MS = 50
    /\ tick = 50
    /\ signal = Steady("high")
    /\ \E f \in BaseFrames, flips \in SubsetsUpTo(FlipPositions, MaxFlips) :
         /\ packedABits = PackBits(Flipped(f.A, "A", flips))
         /\ packedBBits = PackBits(Flipped(f.B, "B", flips))
    /\ buffer = rollingBufferSetupAndCleanup.buffer
    /\ rollingBufferHead = 0
    /\ rollingBufferCarrierWindowScore = MINUTE_MARKER_NUM_SAMPLES_CARRIER
    /\ rollingBufferSilenceWindowScore = 0
    /\ attempts = 1
    /\ attemptStart = 0
    /\ outcomes = << >>
    /\ LocalsInit
    /\ twin = NoTwin

SpecDecode == InitDecode /\ [][Decode \/ RetryCheck]_vars

(***************************************************************************)
(* Sampler specification: the sampling loop of get_time from its first     *)
(* pass, at a clock that advances 1 ms or 6 ms per pass, on a broadcast    *)
(* aligned with minuteStart whose bit-A interval is noise in the seconds   *)
(* 1..NoisySeconds.                                                        *)
(***************************************************************************)
InitSampler ==
    /\ pc = "sample"
    /\ clock = 120000
    /\ SAMPLE_RATE_MS = 50
    /\ tick \in {1, 6}
    /\ signal = Msf(0, 0, 1..NoisySeconds)
    /\ packedABits = memset(8, 0)
    /\ packedBBits = memset(8, 0)
    /\ buffer = rollingBufferSetupAndCleanup.buffer
    /\ rollingBufferHead = 0
    /\ rollingBufferCarrierWindowScore = MINUTE_MARKER_NUM_SAMPLES_CARRIER
    /\ rollingBufferSilenceWindowScore = 0
    /\ attempts = 1
    /\ attemptStart = 0
    /\ outcomes = << >>
    /\ sleepTime = 1000 /\ currentMillis = 0
    /\ startScan = 1000 /\ lastSample = 65950 /\ maxScoreSeen = 24
    /\ timeOfMaxScore = 60500
    /\ prevMinuteMillis = 60000 /\ minuteStart = 120000 /\ nextSecondBoundary = 1000
    /\ countOfHighBitASamples = 0 /\ totalCountOfBitASamples = 0
    /\ countOfHighBitBSamples = 0 /\ totalCountOfBitBSamples = 0
    /\ currentSecond = 0
    /\ result = NoResult
    /\ lastVote = [ second |-> -1, totalA |-> 0, highA |-> 0, totalB |-> 0, highB |-> 0 ]
    /\ fed = 0 /\ recent = << >> /\ changes = 0 /\ firstSeen = << >>
    /\ twin = NoTwin

SpecSampler == InitSampler /\ [][SampleLoop \/ Decode \/ RetryCheck]_vars

(***************************************************************************)
(* Delayed-sampler specification: the sampling loop of get_time from its   *)
(* first pass, on the aligned broadcast, with the loop held up between two *)
(* passes (an interrupt, a slow carrier reader): 900 ms after T0 and again *)
(* 58900 ms after T0 the clock may be 1100 ms or 2500 ms further on at the *)
(* next pass, past one or more second boundaries and past the end of the   *)
(* minute.                                                                 *)
(***************************************************************************)
JumpFrom == {900, 58900}
JumpBy == {1100, 2500}

\* the loop is held up between two passes: only the clock moves
ClockJump ==
    /\ pc = "sample"
    /\ Sub32(clock, minuteStart) \in JumpFrom
    /\ \E by \in JumpBy : clock' = Add32(clock, by)
    /\ UNCHANGED << pc, envVars, packedABits, packedBBits, scorerVars, sleepTime,
                    currentMillis, scanVars, prevMinuteMillis, minuteStart,
                    nextSecondBoundary, counterVars, currentSecond, result, attempts,
                    attemptStart, outcomes, lastVote, obsVars >>

InitJump ==
    /\ pc = "sample"
    /\ clock = 120000
    /\ SAMPLE_RATE_MS = 50
    /\ tick \in {1, 6}
    /\ signal = Msf(0, 0, {})
    /\ packedABits = memset(8, 0)
    /\ packedBBits = memset(8, 0)
    /\ buffer = rollingBufferSetupAndCleanup.buffer
    /\ rollingBufferHead = 0
    /\ rollingBufferCarrierWindowScore = MINUTE_MARKER_NUM_SAMPLES_CARRIER
    /\ rollingBufferSilenceWindowScore = 0
    /\ attempts = 1
    /\ attemptStart = 0
    /\ outcomes = << >>
    /\ sleepTime = 1000 /\ currentMillis = 0
    /\ startScan = 1000 /\ lastSample = 65950 /\ maxScoreSeen = 24
    /\ timeOfMaxScore = 60500
    /\ prevMinuteMillis = 60000 /\ minuteStart = 120000 /\ nextSecondBoundary = 1000
    /\ countOfHighBitASamples = 0 /\ totalCountOfBitASamples = 0
    /\ countOfHighBitBSamples = 0 /\ totalCountOfBitBSamples = 0
    /\ currentSecond = 0
    /\ result = NoResult
    /\ lastVote = [ second |-> -1, totalA |-> 0, highA |-> 0, totalB |-> 0, highB |-> 0 ]
    /\ fed = 0 /\ recent = << >> /\ changes = 0 /\ firstSeen = << >>
    /\ twin = NoTwin

SpecJump == InitJump /\ [][SampleLoop \/ ClockJump \/ Decode \/ RetryCheck]_vars

(***************************************************************************)
(* Scorer specification: rollingBufferSetupAndCleanup on leftover fields,  *)
(* then calls of updateRollingBuffer: for the sample periods 10, 20, 50    *)
(* and 100 (and 30 and 70, which divide no window) with samples that       *)
(* change value up to MaxChanges times, and for every sample period of     *)
(* 1..100 with the minute-marker pattern.                                  *)
(***************************************************************************)
ScorerPeriods == {10, 20, 30, 50, 70, 100}

InitScorer ==
    /\ pc = "reset"
    /\ clock = 1000
    /\ \/ SAMPLE_RATE_MS \in ScorerPeriods /\ signal = Steady("samples")
       \/ SAMPLE_RATE_MS \in 1..100 /\ signal = Steady("pattern")
    /\ tick = SAMPLE_RATE_MS
    /\ packedABits = memset(8, 0)
    /\ packedBBits = memset(8, 0)
    /\ \E g \in Garbage :
         /\ buffer = memset(MINUTE_MARKER_LOOKUP_BUFFER_SIZE_IN_BYTES, g)
         /\ rollingBufferHead = g
         /\ rollingBufferCarrierWindowScore = g
         /\ rollingBufferSilenceWindowScore = g
    /\ attempts = 1
    /\ attemptStart = 0
    /\ outcomes = << >>
    /\ sleepTime = 1000 /\ currentMillis = 0
    /\ startScan = 0 /\ lastSample = 0 /\ maxScoreSeen = 0 /\ timeOfMaxScore = 0
    /\ prevMinuteMillis = 0 /\ minuteStart = 0 /\ nextSecondBoundary = 0
    /\ countOfHighBitASamples = 0 /\ totalCountOfBitASamples = 0
    /\ countOfHighBitBSamples = 0 /\ totalCountOfBitBSamples = 0
    /\ currentSecond = 0
    /\ result = NoResult
    /\ lastVote = [ second |-> -1, totalA |-> 0, highA |-> 0, totalB |-> 0, highB |-> 0 ]
    /\ fed = 0 /\ recent = << >> /\ changes = 0 /\ firstSeen = << >>
    /\ twin = NoTwin

SpecScorer == InitScorer /\ [][ResetBuffer \/ UpdateRollingBuffer]_vars

(***************************************************************************)
(* Scan specification: syncToMinuteMarker from rollingBufferSetupAndCleanup *)
(* to its return, the scan starting at clock value 1000, at the sample     *)
(* periods 10, 50 and 100 with the loop running once or twice per sample   *)
(* period.                                                                 *)
(***************************************************************************)
ScanPeriods == {10, 50, 100}

\* one minute marker in steady carrier: its silence starting with the scan,
\* after exactly 700 ms of carrier, ending 12345 ms into the scan (off the
\* sampling grid) and ending 100 ms before the scan does; and the whole
\* broadcast with one minute start in the scan (29 s in) or two (1 s and
\* 61 s in)
ScanSignals ==
    {Marker(p) : p \in {1000, 1700, 12845, 65400}}
      \cup {Msf(p, 0, {}) : p \in {2000, 30000}}

InitScan ==
    /\ pc = "reset"
    /\ clock = 1000
    /\ SAMPLE_RATE_MS \in ScanPeriods
    /\ tick \in {SAMPLE_RATE_MS, SAMPLE_RATE_MS \div 2}
    /\ signal \in ScanSignals
    /\ packedABits = memset(8, 0)
    /\ packedBBits = memset(8, 0)
    /\ \E g \in Garbage :
         /\ buffer = memset(MINUTE_MARKER_LOOKUP_BUFFER_SIZE_IN_BYTES, g)
         /\ rollingBufferHead = g
         /\ rollingBufferCarrierWindowScore = g
         /\ rollingBufferSilenceWindowScore = g
    /\ attempts = 1
    /\ attemptStart = 0
    /\ outcomes = << >>
    /\ sleepTime = 1000 /\ currentMillis = 0
    /\ startScan = 0 /\ lastSample = 0 /\ maxScoreSeen = 0 /\ timeOfMaxScore = 0
    /\ prevMinuteMillis = 0 /\ minuteStart = 0 /\ nextSecondBoundary = 0
    /\ countOfHighBitASamples = 0 /\ totalCountOfBitASamples = 0
    /\ countOfHighBitBSamples = 0 /\ totalCountOfBitBSamples = 0
    /\ currentSecond = 0
    /\ result = NoResult
    /\ lastVote = [ second |-> -1, totalA |-> 0, highA |-> 0, totalB |-> 0, highB |-> 0 ]
    /\ fed = 0 /\ recent = << >> /\ changes = 0 /\ firstSeen = << >>
    /\ twin = NoTwin

SpecScan == InitScan /\ [][ResetBuffer \/ ScanLoop]_vars

(***************************************************************************)
(* Wraparound specification: get_time_with_retry called 100 s or 30 s      *)
(* before the 32-bit millisecond clock wraps round to 0, with a stuck      *)
(* reader or the broadcast (whose minutes do not depend on the clock).     *)
(***************************************************************************)
\* clock values 100000 ms and 30000 ms before 2^32
WrapStarts == {Sub32(0, 100000), Sub32(0, 30000)}

InitWrap ==
    /\ pc = "retry"
    /\ clock \in WrapStarts
    /\ SAMPLE_RATE_MS = 50
    /\ tick = 50
    /\ signal \in {Steady("high"), Msf(6100, 0, {})}
    /\ \E g \in Garbage :
         /\ packedABits = memset(8, g)
         /\ packedBBits = memset(8, g)
         /\ buffer = memset(MINUTE_MARKER_LOOKUP_BUFFER_SIZE_IN_BYTES, g)
         /\ rollingBufferHead = g
         /\ rollingBufferCarrierWindowScore = g
         /\ rollingBufferSilenceWindowScore = g
    /\ attempts = 0
    /\ attemptStart = 0
    /\ outcomes = << >>
    /\ LocalsInit
    /\ twin = NoTwin

SpecWrap == InitWrap /\ [][Next]_vars

(***************************************************************************)
(* Two-receiver specification: the full pipeline with a second receiver    *)
(* beside the first, which starts every attempt with other contents in     *)
(* each of its fields and is given the same clock values, the same sleep   *)
(* and the same carrier samples.                                           *)
(***************************************************************************)
InitTwin ==
    /\ pc = "retry"
    /\ clock = 0
    /\ SAMPLE_RATE_MS = 50
    /\ tick = 50
    /\ signal \in Signals
    /\ \E g \in Garbage :
         /\ packedABits = memset(8, g)
         /\ packedBBits = memset(8, g)
         /\ buffer = memset(MINUTE_MARKER_LOOKUP_BUFFER_SIZE_IN_BYTES, g)
         /\ rollingBufferHead = g
         /\ rollingBufferCarrierWindowScore = g
         /\ rollingBufferSilenceWindowScore = g
    /\ attempts = 0
    /\ attemptStart = 0
    /\ outcomes = << >>
    /\ LocalsInit
    /\ twin = twinLeftover

SpecTwin == InitTwin /\ [][Next]_vars

(***************************************************************************)
(* Coarse specification: the full pipeline of MSFReceiver<1000>, whose     *)
(* carrier and silence windows are 700 / 1000 = 0 and 500 / 1000 = 0       *)
(* samples long, with a stuck reader or a broadcast whose seconds start    *)
(* 500 ms off the receiver's sampling instants.                            *)
(***************************************************************************)
CoarsePeriod == 1000

InitCoarse ==
    /\ pc = "retry"
    /\ clock = 0
    /\ SAMPLE_RATE_MS = CoarsePeriod
    /\ tick = 50
    /\ signal \in {Steady("high"), Msf(59500, 0, {})}
    /\ \E g \in Garbage :
         /\ packedABits = memset(8, g)
         /\ packedBBits = memset(8, g)
         /\ buffer = memset(MINUTE_MARKER_LOOKUP_BUFFER_SIZE_IN_BYTES, g)
         /\ rollingBufferHead = g
         /\ rollingBufferCarrierWindowScore = g
         /\ rollingBufferSilenceWindowScore = g
    /\ attempts = 0
    /\ attemptStart = 0
    /\ outcomes = << >>
    /\ LocalsInit
    /\ twin = NoTwin

SpecCoarse == InitCoarse /\ [][Next]_vars

(***************************************************************************)
(* Properties.                                                             *)
(***************************************************************************)
\* bit k of a register as 0 or 1
bitA(k) == IF readBit(packedABits, k) THEN 1 ELSE 0
bitB(k) == IF readBit(packedBBits, k) THEN 1 ELSE 0
OnesA(lo, hi) == Cardinality({k \in lo..hi : readBit(packedABits, k)})
Odd(n) == n % 2 = 1
RegistersHold(f) == packedABits = PackBits(f.A) /\ packedBBits = PackBits(f.B)
FlipBit(array, k) ==
    [array EXCEPT ![k \div 8] = IF readBit(array, k) THEN @ - 2 ^ (k % 8) ELSE @ + 2 ^ (k % 8)]
\* clock time since get_time was called
Duration == Sub32(clock, attemptStart)

RawYear == 80 * bitA(17) + 40 * bitA(18) + 20 * bitA(19) + 10 * bitA(20)
             + 8 * bitA(21) + 4 * bitA(22) + 2 * bitA(23) + bitA(24)
RawMonth == 10 * bitA(25) + 8 * bitA(26) + 4 * bitA(27) + 2 * bitA(28) + bitA(29)
RawDay == 20 * bitA(30) + 10 * bitA(31) + 8 * bitA(32) + 4 * bitA(33)
            + 2 * bitA(34) + bitA(35)
RawDOW == 4 * bitA(36) + 2 * bitA(37) + bitA(38)
RawHour == 20 * bitA(39) + 10 * bitA(40) + 8 * bitA(41) + 4 * bitA(42)
             + 2 * bitA(43) + bitA(44)
RawMinute == 40 * bitA(45) + 20 * bitA(46) + 10 * bitA(47) + 8 * bitA(48)
               + 4 * bitA(49) + 2 * bitA(50) + bitA(51)

AllParityOdd ==
    /\ Odd(OnesA(17, 24) + bitB(54))
    /\ Odd(OnesA(25, 35) + bitB(55))
    /\ Odd(OnesA(36, 38) + bitB(56))
    /\ Odd(OnesA(39, 51) + bitB(57))

\* C1: get_time_with_retry returns only a result with checksumPassed, which
\* is the result of the last attempt, every attempt before it having had
\* checksumPassed = false; after a failed attempt it goes round the loop, and
\* a new attempt can always be started (no attempt limit below the model's)
C1_RetryReturnsFirstSuccess ==
    /\ [](pc = "returned" =>
            /\ result.checksumPassed
            /\ Len(outcomes) = attempts
            /\ outcomes[attempts] = result.checksumPassed
            /\ \A i \in 1..(attempts - 1) : ~outcomes[i])
    /\ [](pc = "retry" /\ attempts < MaxAttempts => ENABLED StartAttempt)
    /\ [][ /\ (pc = "check" /\ ~result.checksumPassed => pc' = "retry")
           /\ (pc = "check" /\ result.checksumPassed =>
                 pc' = "returned" /\ result' = result)
           /\ (pc = "retry" => pc' = "sleep" /\ attempts' = attempts + 1) ]_vars

C1_Witness == pc = "returned" /\ outcomes = << FALSE, TRUE >>

\* C2: checksumPassed is true exactly when the four groups A[17..24]+B[54],
\* A[25..35]+B[55], A[36..38]+B[56], A[39..51]+B[57] each hold an odd number
\* of ones and 1 <= month <= 12, 1 <= day <= 31, hour <= 23, minute <= 59
C2_ChecksumIffParityAndSanity ==
    pc = "check" =>
        (result.checksumPassed <=>
            /\ AllParityOdd
            /\ 1 <= result.month /\ result.month <= 12
            /\ 1 <= result.day /\ result.day <= 31
            /\ result.hour <= 23
            /\ result.minute <= 59)

\* correct parity everywhere, month 13: rejected by the sanity check
C2_Witness ==
    /\ pc = "check"
    /\ AllParityOdd
    /\ result.month = 13 /\ result.day = 17 /\ result.hour = 14 /\ result.minute = 5
    /\ ~result.checksumPassed

\* C3: month, day, hour, minute are the weighted sums of their A-bit ranges
\* and dayOfTheWeek the weighted sum of A[36..38] plus 1, whatever the B
\* register holds
C3_FieldsAreWeightedSums ==
    pc = "check" =>
        /\ result.month = RawMonth
        /\ result.day = RawDay
        /\ result.hour = RawHour
        /\ result.minute = RawMinute
        /\ result.dayOfTheWeek = RawDOW + 1
        /\ \A b \in {memset(8, 0), memset(8, 255)} :
             LET r == decode(packedABits, b)
             IN  /\ r.month = result.month /\ r.day = result.day
                 /\ r.hour = result.hour /\ r.minute = result.minute
                 /\ r.dayOfTheWeek = result.dayOfTheWeek

\* the A register of the 2024-03-17 14:05 frame beside a different B register
C3_Witness ==
    /\ pc = "check"
    /\ packedABits = PackBits(FrameE1A)
    /\ packedBBits # PackBits(FrameE1B)
    /\ result.month = 3 /\ result.day = 17 /\ result.hour = 14
    /\ result.minute = 5 /\ result.dayOfTheWeek = 7

\* C4 as stated: the year field is the raw weighted sum of A[17..24]
C4_YearIsOffsetFrom2000 == pc = "check" => result.year = RawYear

\* C4 as amended: the year field is 2000 plus the raw weighted sum of
\* A[17..24]; the frame encoding 2024 returns year = 2024
C4_YearIsCalendarYear == pc = "check" => result.year = 2000 + RawYear

C4_Witness ==
    pc = "check" /\ RegistersHold([A |-> FrameE1A, B |-> FrameE1B]) /\ result.year = 2024

\* C5: a result with checksumPassed lies in the declared ranges
C5_ResultInDeclaredRanges ==
    pc = "check" /\ result.checksumPassed =>
        /\ result.dayOfTheWeek \in 1..7
        /\ RawDOW \in 0..6
        /\ RawYear \in 0..99
        /\ result.month \in 1..12
        /\ result.day \in 1..31
        /\ result.hour \in 0..23
        /\ result.minute \in 0..59
        /\ result.second = 0

\* C9: from registers that pass, one flipped bit among A[17..51] or B[54..57]
\* makes the decoder return checksumPassed = false
C9_SingleBitErrorDetected ==
    pc = "check" /\ result.checksumPassed =>
        /\ \A k \in 17..51 : ~decode(FlipBit(packedABits, k), packedBBits).checksumPassed
        /\ \A k \in 54..57 : ~decode(packedABits, FlipBit(packedBBits, k)).checksumPassed

\* scenario E2: the passing frame, whose minute decodes differently with
\* A[45] flipped
C9_Witness ==
    /\ pc = "check"
    /\ result.checksumPassed
    /\ RegistersHold([A |-> FrameE1A, B |-> FrameE1B])
    /\ decode(FlipBit(packedABits, 45), packedBBits).minute = 45
    /\ ~decode(FlipBit(packedABits, 45), packedBBits).checksumPassed

\* C6: every call of get_time returns a result: under the fairness of
\* FairSpec each started attempt reaches the wrapper's test of its result,
\* and no loop is still running once the clock has passed its end (the sleep
\* by sleepTime, the scan by 65000 ms, the wait by minuteStart, the sampling
\* by 60 s after minuteStart), give or take one pass
C6_GetTimeTerminates ==
    /\ [](pc = "sleep" => <>(pc = "check"))
    /\ [](pc = "sleep" => Sub32(clock, currentMillis) < sleepTime + tick)
    /\ [](pc = "scan" => Sub32(clock, startScan) < 65000 + tick)
    /\ [](pc = "wait" => Sub32(clock, minuteStart) < tick \/ Lt32(clock, minuteStart))
    /\ [](pc = "sample" => Sub32(clock, minuteStart) < 60000 + tick)
    /\ [](pc \in {"check", "returned"} => result # NoResult)

C6_Witness == pc = "check" /\ attempts = 2 /\ sleepTime = 4999 /\ signal.kind = "msf"

\* C7 as stated: an attempt takes at most about 125 s from call to return
\* ("about" read as up to 10 % more)
C7_AtMostAbout125s == pc = "check" => Duration <= 125000 + 12500

\* C7 as amended: an attempt takes more than 126 s and at most 190 s of
\* clock time (sleep < 5000, scan 65000, wait for the boundary <= 60000,
\* sampling 60000), plus two clock steps of overshoot
C7_AttemptDuration ==
    pc = "check" => Duration > 126000 /\ Duration <= 190000 + 2 * tick

C7_Witness == pc = "check" /\ Duration >= 190000 /\ result.checksumPassed

\* C8: with a carrier reader that returns the same value on every call,
\* every attempt ends with checksumPassed = false and the wrapper never
\* returns
C8_StuckReaderNeverPasses ==
    signal.kind \in {"high", "low"} =>
        /\ pc # "returned"
        /\ \A i \in 1..Len(outcomes) : ~outcomes[i]
        /\ (pc = "check" => ~result.checksumPassed)

C8_Witness ==
    signal.kind = "low" /\ pc = "retry" /\ Len(outcomes) = 2 /\ result.month = 25

\* C10: the bit stored at the end of a second is 1 exactly when its window
\* was sampled and (100 * high) / total, rounded down, exceeds 60, where
\* high counts the samples without carrier; on the aligned broadcast the
\* stored bits are the broadcast's, outside the noisy seconds
C10_VoteThreshold ==
    /\ lastVote.second >= 0 =>
         /\ readBit(packedABits, lastVote.second) =
              (lastVote.totalA > 0 /\ (100 * lastVote.highA) \div lastVote.totalA > 60)
         /\ readBit(packedBBits, lastVote.second) =
              (lastVote.totalB > 0 /\ (100 * lastVote.highB) \div lastVote.totalB > 60)
    /\ \A k \in 1..(currentSecond - 1) :
         /\ k \notin signal.noisy => (readBit(packedABits, k) <=> k \in signal.frameA)
         /\ readBit(packedBBits, k) <=> k \in signal.frameB

\* exactly 60 %: 3 of 5 samples without carrier, stored as 0
C10_Witness ==
    /\ pc = "sample"
    /\ lastVote.second = 1 /\ lastVote.totalA = 5 /\ lastVote.highA = 3
    /\ ~readBit(packedABits, 1)

\* the samples fed since the reset, oldest first, behind as many carrier
\* samples as are needed to fill both windows
padded ==
    [i \in 1..(LOOKBACK_TOTAL - Len(recent)) |-> TRUE] \o recent

\* the ring buffer's bit j places behind the head (1 = the sample fed last)
bufferBack(j) ==
    readBit(buffer, (rollingBufferHead - j) % MINUTE_MARKER_LOOKUP_BUFFER_SIZE_IN_NUM_ELEMENTS)

\* C12: after a reset and any calls of updateRollingBuffer the carrier score
\* is in 0..SAMPLES_CARRIER and the silence score in 0..SAMPLES_SILENCE, so
\* the confidence returned (their sum) is in 0..LOOKBACK
C12_ScorerRange ==
    pc = "scan" =>
        /\ rollingBufferCarrierWindowScore \in 0..MINUTE_MARKER_NUM_SAMPLES_CARRIER
        /\ rollingBufferSilenceWindowScore \in 0..MINUTE_MARKER_NUM_SAMPLES_SILENCE
        /\ rollingBufferCarrierWindowScore + rollingBufferSilenceWindowScore
             \in 0..LOOKBACK_TOTAL

\* both ends of the range: silence all through the carrier window and
\* carrier all through the silence window scores 0, the opposite LOOKBACK
C12_Witness ==
    /\ pc = "scan" /\ signal.kind = "samples" /\ fed = LOOKBACK_TOTAL
    /\ rollingBufferCarrierWindowScore = 0
    /\ rollingBufferSilenceWindowScore = 0

\* C13: after a reset and any calls of updateRollingBuffer the silence score
\* is the number of silence samples among the last SAMPLES_SILENCE samples,
\* and the carrier score the number of carrier samples among the
\* SAMPLES_CARRIER samples before those, samples before the reset counting
\* as carrier; both equal a recount of the ring buffer behind the head
C13_ScoreEqualsRecount ==
    pc = "scan" =>
        /\ LET p == padded
           IN  /\ rollingBufferSilenceWindowScore =
                    Cardinality({i \in (MINUTE_MARKER_NUM_SAMPLES_CARRIER + 1)..LOOKBACK_TOTAL :
                                   ~p[i]})
               /\ rollingBufferCarrierWindowScore =
                    Cardinality({i \in 1..MINUTE_MARKER_NUM_SAMPLES_CARRIER : p[i]})
        /\ rollingBufferSilenceWindowScore =
             Cardinality({j \in 1..MINUTE_MARKER_NUM_SAMPLES_SILENCE : ~bufferBack(j)})
        /\ rollingBufferCarrierWindowScore =
             Cardinality({j \in (MINUTE_MARKER_NUM_SAMPLES_SILENCE + 1)..LOOKBACK_TOTAL :
                            bufferBack(j)})

\* a burst of silence half way out of the silence window, after the ring
\* buffer has gone round, at the finest of the four sample periods
C13_Witness ==
    /\ pc = "scan" /\ SAMPLE_RATE_MS = 10
    /\ fed > MINUTE_MARKER_LOOKUP_BUFFER_SIZE_IN_NUM_ELEMENTS
    /\ changes = 2
    /\ rollingBufferSilenceWindowScore = 20
    /\ rollingBufferCarrierWindowScore = 60

\* C14: SAMPLES_CARRIER carrier samples then SAMPLES_SILENCE silence samples
\* fed straight after a reset leave the confidence at LOOKBACK, for every
\* sample period
C14_MarkerScoresLookback ==
    /\ pc = "scan"
    /\ fed = LOOKBACK_TOTAL
    /\ recent = [i \in 1..LOOKBACK_TOTAL |-> i <= MINUTE_MARKER_NUM_SAMPLES_CARRIER]
    => rollingBufferCarrierWindowScore + rollingBufferSilenceWindowScore = LOOKBACK_TOTAL

\* a sample period that divides neither window: 700 / 30 = 23, 500 / 30 = 16
C14_Witness ==
    /\ pc = "scan" /\ signal.kind = "pattern" /\ SAMPLE_RATE_MS = 30
    /\ fed = 39
    /\ rollingBufferCarrierWindowScore + rollingBufferSilenceWindowScore = 39

\* the first minute start of the broadcast at or after the start of the scan
markerStart ==
    IF signal.kind = "marker" THEN signal.phase
    ELSE Add32(startScan, Mod32(Sub32(signal.phase, startScan), 60000))

\* C11: the peak kept by the scan is the highest score of the scan at the
\* time that score was first reached (a later equal score does not move it),
\* syncToMinuteMarker returns that time minus 500, and with a marker pattern
\* in the scan the value returned is the marker's start or up to one sample
\* period before it
C11_SyncReturnsFirstPeak ==
    /\ (pc = "scan" /\ fed > 0) \/ pc = "boundary" =>
          /\ maxScoreSeen \in DOMAIN firstSeen
          /\ \A score \in DOMAIN firstSeen : score <= maxScoreSeen
          /\ timeOfMaxScore = firstSeen[maxScoreSeen]
    /\ pc = "boundary" =>
          /\ prevMinuteMillis = Sub32(timeOfMaxScore, 500)
          /\ maxScoreSeen = LOOKBACK_TOTAL
          /\ Sub32(markerStart, prevMinuteMillis) \in 0..SAMPLE_RATE_MS

\* scenario E6: the silence ends 12345 ms after the start of the scan, the
\* value returned is 11800 ms after it at a sample period of 50 ms
C11_Witness ==
    /\ pc = "boundary"
    /\ signal = Marker(12845)
    /\ SAMPLE_RATE_MS = 50
    /\ startScan = 1000
    /\ prevMinuteMillis = 12800

\* C15: the minute boundary T0 computed by get_next_bit_retrieval_timestamp
\* is later than the clock value at its return, by at most 60000 ms, and is
\* the estimate returned by syncToMinuteMarker plus a whole multiple of
\* 60000 ms, also when the clock advances between the function's two
\* readings of it
C15_BoundaryIsEstimatePlusMinutes ==
    [][pc = "boundary" =>
         /\ Lt32(clock', minuteStart')
         /\ Sub32(minuteStart', clock') <= 60000
         /\ Mod32(Sub32(minuteStart', prevMinuteMillis), 60000) = 0]_vars

\* C16: through a wraparound of the clock the scan still ends 65000 ms
\* after it started, and the sampling loop is entered only once the clock
\* has reached the minute boundary T0 (the clock is at or after T0 in
\* modular terms: less than 2^31 ms past it)
C16_WraparoundSafe ==
    /\ pc = "scan" => Sub32(clock, startScan) \in 0..(65000 + tick - 1)
    /\ pc = "boundary" => Sub32(clock, startScan) \in 65000..(65000 + tick - 1)
    /\ pc = "sample" => Sub32(clock, minuteStart) >= 0

C18_PhaseOrder ==
    [][/\ pc = "retry" => pc' = "sleep" /\ sleepTime' >= 1000
       /\ pc = "sleep" =>
             /\ pc' \in {"sleep", "reset"}
             /\ pc' = "reset" => ~Lt32(Sub32(clock, currentMillis), sleepTime)
       /\ pc = "reset" =>
             /\ pc' = "scan"
             /\ scorer' = rollingBufferSetupAndCleanup
             /\ fed' = 0
       /\ pc = "scan" =>
             /\ pc' \in {"scan", "boundary"}
             /\ pc' = "boundary" => ~Lt32(Sub32(clock, startScan), 65000)
       /\ pc = "boundary" => pc' = "wait"
       /\ pc = "wait" =>
             /\ pc' \in {"wait", "sample"}
             /\ pc' = "sample" => ~Lt32(clock, minuteStart) /\ currentSecond' = 0
       /\ pc = "sample" =>
             /\ pc' \in {"sample", "decode"}
             /\ currentSecond' \in {currentSecond, currentSecond + 1}
             /\ (pc' = "decode") = (currentSecond' = 60)
       /\ pc = "decode" => pc' = "check"
       /\ pc = "check" => pc' \in {"retry", "returned"}
       /\ fed' > fed => pc = "scan"
       /\ scorerVars' # scorerVars => pc \in {"reset", "scan"}
       /\ minuteStart' # minuteStart => pc = "boundary"
       /\ result' # result => pc = "decode" /\ currentSecond = 60]_vars

\* the end of a second attempt: every phase has been gone through twice
C18_Witness ==
    /\ pc = "check"
    /\ attempts = 2
    /\ Len(outcomes) = 2
    /\ fed >= 65000 \div SAMPLE_RATE_MS
    /\ currentSecond = 60

\* C19: a second receiver that starts each attempt with a different ring
\* buffer, head index, carrier score, silence score and A and B registers,
\* and is given the same clock values, sleep and carrier samples, gets the
\* same score from every call of updateRollingBuffer and returns the same
\* result from the attempt
C19_AttemptIndependence ==
    twin.on =>
      /\ pc = "sleep" =>
            /\ twin.buffer # buffer
            /\ twin.head # rollingBufferHead
            /\ twin.carrier # rollingBufferCarrierWindowScore
            /\ twin.silence # rollingBufferSilenceWindowScore
            /\ twin.packedABits # packedABits
            /\ twin.packedBBits # packedBBits
      /\ twin.same
      /\ pc \in {"boundary", "wait", "sample", "decode"} => twinScorer = scorer
      /\ pc = "decode" =>
            /\ twin.packedABits = packedABits
            /\ twin.packedBBits = packedBBits
      /\ pc \in {"check", "returned"} => twin.result = result

\* a second attempt that decodes the broadcast, after a first one on steady
\* carrier, in both receivers
C19_Witness ==
    /\ twin.on
    /\ pc = "check"
    /\ attempts = 2
    /\ outcomes = << FALSE, TRUE >>
    /\ result.checksumPassed
    /\ twin.result = result

\* C20: an attempt whose scan ended with maxScoreSeen still 0 (no sample
\* beat the initial best score, timeOfMaxScore is 0 and the value returned
\* by syncToMinuteMarker is 0 - 500) returns checksumPassed = false
C20_FailedSyncSignalled ==
    pc = "check" /\ maxScoreSeen = 0 /\ timeOfMaxScore = 0 =>
      ~result.checksumPassed

\* the calls decodeBCD(startIdx, count, ...) and checkParity(startIdx, count,
\* parityBitIdx) of the decode block
bcdCalls == {<< 17, 8 >>, << 25, 5 >>, << 30, 6 >>, << 39, 6 >>, << 45, 7 >>,
             << 36, 3 >>}
parityCalls == {<< 17, 8, 54 >>, << 25, 11, 55 >>, << 36, 3, 56 >>,
                << 39, 13, 57 >>}

\* the positions of the registers the decode block reads
decodeReadsA ==
    UNION {c[1]..(c[1] + c[2] - 1) : c \in bcdCalls \cup {<< q[1], q[2] >> : q \in parityCalls}}
decodeReadsB == {q[3] : q \in parityCalls}

\* positions of the ring buffer, and of its bytes
bufferPositions == 0..(MINUTE_MARKER_LOOKUP_BUFFER_SIZE_IN_NUM_ELEMENTS - 1)
bufferBytes == 0..(MINUTE_MARKER_LOOKUP_BUFFER_SIZE_IN_BYTES - 1)

\* the head and the two edge indices the next call of updateRollingBuffer
\* computes are positions of the ring buffer, inside its bytes
scorerIndicesInRange ==
    LET used == {rollingBufferHead,
                 indexAtEdge(rollingBufferHead, MINUTE_MARKER_NUM_SAMPLES_SILENCE),
                 indexAtEdge(rollingBufferHead, LOOKBACK_TOTAL)}
    IN  /\ used \subseteq bufferPositions
        /\ {i \div 8 : i \in used} \subseteq bufferBytes
        /\ DOMAIN buffer = bufferBytes

\* the positions of the registers that are written and read are in 0..59,
\* inside the 8 bytes of each register
registerIndicesInRange ==
    /\ pc = "sample" => currentSecond \in 0..59
    /\ decodeReadsA \subseteq 0..59
    /\ decodeReadsB \subseteq 0..59
    /\ DOMAIN packedABits = 0..7 /\ DOMAIN packedBBits = 0..7

\* a step that pushes a sample takes both edge samples from the buffer as
\* it was before the push, at positions other than the head, and writes the
\* new sample at the head
edgesReadBeforeWrite ==
    fed' = fed + 1 =>
      LET head == rollingBufferHead
          indexAtSilenceEdge == indexAtEdge(head, MINUTE_MARKER_NUM_SAMPLES_SILENCE)
          indexAtCarrierEdge == indexAtEdge(head, LOOKBACK_TOTAL)
          carrierValue == readBit(buffer', head)
      IN  /\ indexAtSilenceEdge # head /\ indexAtCarrierEdge # head
          /\ rollingBufferCarrierWindowScore' =
                carrierScoreAfter(rollingBufferCarrierWindowScore,
                                  readBit(buffer, indexAtSilenceEdge),
                                  readBit(buffer, indexAtCarrierEdge))
          /\ rollingBufferSilenceWindowScore' =
                silenceScoreAfter(rollingBufferSilenceWindowScore, carrierValue,
                                  readBit(buffer, indexAtSilenceEdge))
          /\ buffer' = writeBit(buffer, head, carrierValue)

\* C21 as stated: in every reachable state the head and both edge indices
\* are in 0..BUFFER_LEN - 1, the edges are read before the write at the
\* head, and the registers are read and written at positions in 0..59
C21_IndicesInRangeAlways ==
    /\ [](scorerIndicesInRange /\ registerIndicesInRange)
    /\ [][edgesReadBeforeWrite]_vars

\* C21 as amended: the same from the first rollingBufferSetupAndCleanup on;
\* before it the head is whatever the memory held, and is not used
C21_IndicesInRangeAfterReset ==
    /\ [](pc \notin {"retry", "sleep", "reset"} \/ outcomes # << >> =>
            scorerIndicesInRange)
    /\ []registerIndicesInRange
    /\ [][edgesReadBeforeWrite]_vars

\* the head has gone round the buffer once and the carrier edge is still
\* on the other side of its end
C21_Witness ==
    /\ pc = "scan"
    /\ fed = MINUTE_MARKER_LOOKUP_BUFFER_SIZE_IN_NUM_ELEMENTS + 1
    /\ rollingBufferHead = 1
    /\ indexAtEdge(rollingBufferHead, LOOKBACK_TOTAL)
         = MINUTE_MARKER_LOOKUP_BUFFER_SIZE_IN_NUM_ELEMENTS + 1 - LOOKBACK_TOTAL

\* the bits of a register at every position but k
otherBits(array, k) == [j \in (0..59) \ {k} |-> readBit(array, j)]

\* C22: the sampling loop starts at second 0 with all four counters at 0 and
\* the seconds are stored one at a time in the order 0, 1, ..., 59 (the last
\* second stored is always currentSecond - 1); a step stores A[k]
\* and B[k] for k = currentSecond only in a pass that has read a time of at
\* least 1000 (k + 1) since T0, changes no other position of the registers,
\* and leaves all four counters at 0; a step that does not store leaves the
\* registers alone; the loop ends exactly with the store of second 59; also
\* when the loop is held up across one or more second boundaries
C22_StoresOncePerSecondInOrder ==
    /\ [](pc = "sample" =>
            /\ currentSecond \in 0..59
            /\ nextSecondBoundary = 1000 * (currentSecond + 1)
            /\ (currentSecond > 0 => lastVote.second = currentSecond - 1)
            /\ (Sub32(clock, minuteStart) = 0 => counterVars = << 0, 0, 0, 0 >>))
    /\ [](pc \in {"decode", "check"} => (currentSecond = 60 /\ lastVote.second = 59))
    /\ [][(pc # "sample" /\ pc' = "sample") =>
            (currentSecond' = 0 /\ counterVars' = << 0, 0, 0, 0 >>)]_vars
    /\ [][pc = "sample" =>
            LET k == currentSecond
            IN  /\ currentSecond' \in {k, k + 1}
                /\ (pc' = "decode") = (currentSecond' = 60)
                /\ (currentSecond' = k + 1 =>
                      /\ Sub32(clock, minuteStart) >= 1000 * (k + 1)
                      /\ lastVote'.second = k
                      /\ readBit(packedABits', k) = vote(lastVote'.highA, lastVote'.totalA)
                      /\ readBit(packedBBits', k) = vote(lastVote'.highB, lastVote'.totalB)
                      /\ otherBits(packedABits', k) = otherBits(packedABits, k)
                      /\ otherBits(packedBBits', k) = otherBits(packedBBits, k)
                      /\ counterVars' = << 0, 0, 0, 0 >>)
                /\ (currentSecond' = k =>
                      /\ packedABits' = packedABits
                      /\ packedBBits' = packedBBits
                      /\ lastVote' = lastVote)]_vars

\* the loop was held up from 900 ms to 3400 ms after T0: second 0 has been
\* stored, seconds 1 and 2 are still to be stored one pass after the other
C22_Witness ==
    /\ pc = "sample"
    /\ currentSecond = 1
    /\ Sub32(clock, minuteStart) >= 3400
    /\ counterVars = << 0, 0, 0, 0 >>


(***************************************************************************)
(* Bit-packing specification: one call of writeBit on a payload register   *)
(* (positions 0..59) or on the ring buffer (its positions for the sample   *)
(* periods 10, 50 and 100: 150, 30 and 15 bits in 19, 4 and 2 bytes), the  *)
(* arrays filled beforehand with any of four bit patterns.  The position   *)
(* written is kept in currentSecond (register) or rollingBufferHead (ring  *)
(* buffer), as at the call sites, and the value written in recent.         *)
(***************************************************************************)
BitsPeriods == {10, 50, 100}
FillBytes == {0, 90, 165, 255}

InitBits ==
    /\ pc = "write"
    /\ clock = 0
    /\ SAMPLE_RATE_MS \in BitsPeriods
    /\ tick = SAMPLE_RATE_MS
    /\ signal = Steady("samples")
    /\ \E fill \in FillBytes : packedABits = memset(8, fill)
    /\ packedBBits = memset(8, 0)
    /\ \E fill \in FillBytes : buffer = memset(MINUTE_MARKER_LOOKUP_BUFFER_SIZE_IN_BYTES, fill)
    /\ rollingBufferHead = 0
    /\ rollingBufferCarrierWindowScore = 0
    /\ rollingBufferSilenceWindowScore = 0
    /\ attempts = 1
    /\ attemptStart = 0
    /\ outcomes = << >>
    /\ sleepTime = 1000 /\ currentMillis = 0
    /\ startScan = 0 /\ lastSample = 0 /\ maxScoreSeen = 0 /\ timeOfMaxScore = 0
    /\ prevMinuteMillis = 0 /\ minuteStart = 0 /\ nextSecondBoundary = 0
    /\ countOfHighBitASamples = 0 /\ totalCountOfBitASamples = 0
    /\ countOfHighBitBSamples = 0 /\ totalCountOfBitBSamples = 0
    /\ currentSecond = 0
    /\ result = NoResult
    /\ lastVote = [ second |-> -1, totalA |-> 0, highA |-> 0, totalB |-> 0, highB |-> 0 ]
    /\ fed = 0 /\ recent = << >> /\ changes = 0 /\ firstSeen = << >>
    /\ twin = NoTwin

\* writeBit(packedABits, k, v)
WriteRegisterBit ==
    /\ pc = "write"
    /\ \E k \in 0..59, v \in BOOLEAN :
         /\ packedABits' = writeBit(packedABits, k, v)
         /\ currentSecond' = k
         /\ recent' = << v >>
    /\ pc' = "register"
    /\ UNCHANGED << clock, envVars, packedBBits, scorerVars, sleepTime, currentMillis,
                    scanVars, prevMinuteMillis, minuteStart, nextSecondBoundary,
                    counterVars, result, attempts, attemptStart, outcomes, lastVote,
                    fed, changes, firstSeen, twin >>

\* writeBit(buffer, k, v)
WriteBufferBit ==
    /\ pc = "write"
    /\ \E k \in bufferPositions, v \in BOOLEAN :
         /\ buffer' = writeBit(buffer, k, v)
         /\ rollingBufferHead' = k
         /\ recent' = << v >>
    /\ pc' = "buffer"
    /\ UNCHANGED << clock, envVars, packedABits, packedBBits,
                    rollingBufferCarrierWindowScore, rollingBufferSilenceWindowScore,
                    sleepTime, currentMillis, scanVars, prevMinuteMillis, minuteStart,
                    nextSecondBoundary, counterVars, currentSecond, result, attempts,
                    attemptStart, outcomes, lastVote, fed, changes, firstSeen, twin >>

SpecBits == InitBits /\ [][WriteRegisterBit \/ WriteBufferBit]_vars

\* what readBit returns at the given positions of an array
bitsAt(array, positions) == [j \in positions |-> readBit(array, j)]

\* C23: after writeBit(array, k, v) on a payload register (k in 0..59) or on
\* the ring buffer (k in 0..BUFFER_LEN - 1), whatever the array held,
\* readBit(array, k) returns v and readBit returns at every other position
\* of the array what it returned before the write
C23_BitRoundTrip ==
    /\ [](pc = "register" => readBit(packedABits, currentSecond) = recent[1])
    /\ [](pc = "buffer" => readBit(buffer, rollingBufferHead) = recent[1])
    /\ [][pc = "write" =>
            /\ (pc' = "register" =>
                  bitsAt(packedABits', (0..59) \ {currentSecond'})
                    = bitsAt(packedABits, (0..59) \ {currentSecond'}))
            /\ (pc' = "buffer" =>
                  bitsAt(buffer', bufferPositions \ {rollingBufferHead'})
                    = bitsAt(buffer, bufferPositions \ {rollingBufferHead'}))]_vars

\* bit 13 of a ring buffer of 150 bits that held all ones has been cleared:
\* readBit returns 0 there and 1 at the positions beside it
C23_Witness ==
    /\ pc = "buffer"
    /\ SAMPLE_RATE_MS = 10
    /\ rollingBufferHead = 13
    /\ recent = << FALSE >>
    /\ ~readBit(buffer, 13)
    /\ readBit(buffer, 12) /\ readBit(buffer, 14)
    /\ buffer[18] = 255

====
